---------------------------- MODULE Spec2Model ----------------------------
(***************************************************************************)
(* A model of the Kanji stroke-order viewer: the two composing UIs         *)
(* (App in src/src/App.jsx and KanjiModal in src/unnamed/part_000), their  *)
(* vector-asset loaders, stroke animators and freehand overlays.           *)
(*                                                                         *)
(* React is modelled at the granularity of its event loop: one action is   *)
(* one event handler, timer callback or promise continuation, run to       *)
(* completion together with the render and the effects it triggers.        *)
(* Time is a countdown carried by every pending timer and every running    *)
(* CSS transition; Tick lets TickMs milliseconds pass.                      *)
(***************************************************************************)
EXTENDS Integers, Sequences, FiniteSets, TLC

(***************************************************************************)
(* Bounds of the model.                                                    *)
(***************************************************************************)
MaxPending == 2   \* asset fetches in flight at once
MaxLoads == 3     \* entry changes of one KanjiModal (load generations)
MaxLoops == 2     \* reveal loops of playAnimation in flight at once
MaxAnimKey == 2   \* value animKey may reach between two resets
MaxSetups == 2    \* overlay teardowns counted (the count saturates)
MaxPaths == 3     \* path elements of a document given to extractStrokes
MaxReadings == 1  \* readings in the on array of a record given to normalizeKanjiItem
MaxBatch == 3     \* records in a file given to onFilePicked
MaxExampleLen == 6  \* characters of an example string given to pushExample
MaxMarkup == 4      \* lexical pieces of a markup given to sanitizeKanjivgSvg
MaxExamples == 2    \* examples in the viDu array of an entry given to collectExamples

(***************************************************************************)
(* Program constants.                                                      *)
(***************************************************************************)
perStrokeMs == 900
gapMs == 180
dur == 800
gap == 500
MinAnimMs == 600
AnimSlackMs == 200

Null == "null"
UIs == {"App", "KanjiModal"}
Kanji == {"nichi", "tsuki", "kuni"}
Points == {"p1", "p2"}

Min(a, b) == IF a <= b THEN a ELSE b
Max(a, b) == IF a >= b THEN a ELSE b

RECURSIVE GCD(_, _)
GCD(a, b) == IF b = 0 THEN a ELSE GCD(b, a % b)

(***************************************************************************)
(* Markup.  A document is a sequence of lexical pieces; every piece other  *)
(* than whitespace, text and the opening of a doctype with an internal     *)
(* subset ends with its one ">".                                           *)
(***************************************************************************)
Tok(tag) == [tag |-> tag, stroke |-> "", d |-> ""]
PathEl(stroke, d) == [tag |-> "path", stroke |-> stroke, d |-> d]

KanjivgNichi ==
  << Tok("<?xml?>"), Tok("ws"), Tok("<!DOCTYPE["), Tok("<!ATTLIST>"), Tok("]>"),
     Tok("ws"), Tok("<!---->"), Tok("ws"), Tok("<svg>"),
     PathEl("#BCC9E2", "M0"), PathEl("", "M1"), PathEl("#000000", "M2"),
     Tok("</svg>"), Tok("ws") >>

KanjivgTsuki ==
  << Tok("<!DOCTYPE>"), Tok("ws"), Tok("<svg>"), Tok("ws"),
     PathEl("#000000", "M3"), PathEl("#000000", ""), Tok("</svg>") >>

HtmlFallback == << Tok("<html>"), Tok("text"), Tok("</html>") >>

codepoint_hex(k) ==
  CASE k = "nichi" -> "065E5"
    [] k = "tsuki" -> "06708"
    [] OTHER -> ""

toLowerCase(s) ==
  CASE s = "065E5" -> "065e5"
    [] s = "#BCC9E2" -> "#bcc9e2"
    [] OTHER -> s

\* entry.svg.path of the three entries KanjiModal is shown
SvgPath(k) ==
  CASE k = "nichi" -> << "resources/kanji_svg/", "065e5", ".svg" >>
    [] k = "tsuki" -> << "/", "resources/kanji_svg/", "06708", ".svg" >>
    [] OTHER -> << >>

Served(url) ==
  IF "065e5" \in {url[i] : i \in DOMAIN url} THEN KanjivgNichi
  ELSE IF "06708" \in {url[i] : i \in DOMAIN url} THEN KanjivgTsuki
  ELSE << >>

Outcomes == {"ok", "html", "http", "network"}

Body(url, outcome) ==
  CASE outcome = "ok" -> Served(url)
    [] outcome = "html" -> HtmlFallback
    [] OTHER -> << >>

(***************************************************************************)
(* safeSvgUrl                                                              *)
(***************************************************************************)
safeSvgUrl(k) ==
  LET p == SvgPath(k) IN
  IF p = << >> THEN << >>
  ELSE IF Head(p) = "/" THEN p ELSE << "/" >> \o p

AppSvgUrl(code) == << "/", "resources/kanji_svg/", code, ".svg" >>


(***************************************************************************)
(* sanitizeKanjivgSvg (App): four regular-expression replacements and a    *)
(* trim, read on the lexical pieces of the markup.                         *)
(***************************************************************************)
IsWs(t) == t.tag = "ws"
StartsDoctype(t) == t.tag \in {"<!DOCTYPE[", "<!DOCTYPE>"}
EndsSubset(t) == t.tag = "]>"
HasGt(t) == t.tag \notin {"ws", "text", "<!DOCTYPE["}

\* the first index from i on that holds no whitespace (Len + 1 if none)
SkipWs(s, i) ==
  CHOOSE j \in i..(Len(s) + 1) :
    /\ j = Len(s) + 1 \/ ~IsWs(s[j])
    /\ \A k \in i..(j - 1) : IsWs(s[k])

\* s without its pieces i .. j-1
Cut(s, i, j) == SubSeq(s, 1, i - 1) \o SubSeq(s, j, Len(s))

Least(S) == CHOOSE x \in S : \A y \in S : x <= y

\* s.replace(/<\?xml[\s\S]*?\?>\s*/i, "")
ReplaceProlog(s) ==
  LET I == {i \in DOMAIN s : s[i].tag = "<?xml?>"} IN
  IF I = {} THEN s ELSE Cut(s, Least(I), SkipWs(s, Least(I) + 1))

\* s.replace(/<!DOCTYPE[\s\S]*?\]>\s*/i, "")
ReplaceDoctypeSubset(s) ==
  LET I == {i \in DOMAIN s :
              StartsDoctype(s[i]) /\ \E j \in (i + 1)..Len(s) : EndsSubset(s[j])} IN
  IF I = {} THEN s
  ELSE LET i == Least(I)
           j == Least({j \in (i + 1)..Len(s) : EndsSubset(s[j])})
       IN Cut(s, i, SkipWs(s, j + 1))

\* s.replace(/<!DOCTYPE[^>]*>\s*/i, "")
ReplaceDoctypePlain(s) ==
  LET I == {i \in DOMAIN s :
              StartsDoctype(s[i]) /\ \E j \in i..Len(s) : HasGt(s[j])} IN
  IF I = {} THEN s
  ELSE LET i == Least(I)
           j == Least({j \in i..Len(s) : HasGt(s[j])})
       IN Cut(s, i, SkipWs(s, j + 1))

\* the end of the match of /^(\s*<!--[\s\S]*?-->\s*)+/ begun at i
RECURSIVE TopCommentsEnd(_, _)
TopCommentsEnd(s, i) ==
  LET n == SkipWs(s, i) IN
  IF n <= Len(s) /\ s[n].tag = "<!---->"
  THEN TopCommentsEnd(s, SkipWs(s, n + 1))
  ELSE i

ReplaceTopComments(s) == Cut(s, 1, TopCommentsEnd(s, 1))

trim(s) ==
  LET keep == {i \in DOMAIN s : ~IsWs(s[i])} IN
  IF keep = {} THEN << >>
  ELSE SubSeq(s, Least(keep), CHOOSE j \in keep : \A k \in keep : k <= j)

sanitizeKanjivgSvg(raw) ==
  IF raw = << >> THEN << >>
  ELSE trim(ReplaceTopComments(ReplaceDoctypePlain(
         ReplaceDoctypeSubset(ReplaceProlog(raw)))))

(***************************************************************************)
(* KanjiModal.loadSvg's cleaning: parse, drop the text nodes that trim to  *)
(* nothing or to "]>", serialise the root element.                         *)
(***************************************************************************)
IsOpenTag(t) == t.tag \in {"<svg>", "<html>"}
IsCloseTag(t) == t.tag \in {"</svg>", "</html>"}

RootOf(raw) ==
  LET O == {i \in DOMAIN raw : IsOpenTag(raw[i])}
      C == {i \in DOMAIN raw : IsCloseTag(raw[i])}
  IN IF O = {} \/ C = {} THEN << Tok("<parsererror>") >>
     ELSE SubSeq(raw, Least(O), CHOOSE j \in C : \A k \in C : k <= j)

IsStrayText(t) == t.tag \in {"ws", "]>"}

cleaned(raw) == SelectSeq(RootOf(raw), LAMBDA t : ~IsStrayText(t))

(***************************************************************************)
(* The DOM injected from a markup string: its path elements in document    *)
(* order (querySelectorAll("path")), and whether it holds an svg element.  *)
(***************************************************************************)
HasSvg(markup) == \E i \in DOMAIN markup : markup[i].tag = "<svg>"
PathsOf(markup) == SelectSeq(markup, LAMBDA t : t.tag = "path")

GuideColor == "#bcc9e2"

\* a filter that compares the stroke attribute as written
IsStrokeAsWritten(p) ==
  /\ p.stroke # GuideColor
  /\ p.d # ""

IsStroke(p) ==
  /\ toLowerCase(p.stroke) # GuideColor
  /\ p.d # ""

\* extractStrokes: the handles (positions among the path elements) kept
RECURSIVE FilterIdx(_, _)
FilterIdx(paths, i) ==
  IF i > Len(paths) THEN << >>
  ELSE (IF IsStroke(paths[i]) THEN << i >> ELSE << >>) \o FilterIdx(paths, i + 1)

extractStrokes(markup) ==
  IF ~HasSvg(markup) THEN << >> ELSE FilterIdx(PathsOf(markup), 1)


(***************************************************************************)
(* State.                                                                  *)
(***************************************************************************)
VARIABLES
  ui,           \* the composing UI on the page: "App" or "KanjiModal"
  mounted,      \* KanjiModal is mounted (App always is)
  activeKanji,  \* App: the open item, or Null
  entry,        \* KanjiModal: the entry prop
  svgText,      \* the markup state of the mounted UI (<< >> is "")
  svgErr,       \* KanjiModal: the error state ("" is none)
  fetches,      \* App: openDetail calls awaiting fetchText, per item
  loads,        \* KanjiModal: loadSvg calls awaiting fetch, with their cancelled flag
  loadGen,      \* KanjiModal: the number of the latest loadSvg call
  writer,       \* KanjiModal: the loadSvg call that last wrote svgText or svgErr
  domGen,       \* KanjiModal: the loadSvg call whose markup is the injected DOM (0: none)
  discarded,    \* KanjiModal: the latest loadSvg call whose outcome was dropped (0: none)
  animating,    \* App
  animKey,      \* App
  effect,       \* App: the animation effect's pending callback
  isAnimating,  \* KanjiModal
  abort,        \* KanjiModal: abortAnimRef.current.abort
  loops,        \* KanjiModal: the playAnimation calls suspended in sleep
  reveal,       \* the style of every path element of the injected DOM
  drawMode,     \* the draw-mode state of the mounted UI
  hasInk,       \* App (useCanvasDraw)
  ink,          \* the segments on the overlay canvas
  listeners,    \* registered handlers, counted per event type
  enabled,      \* App: the value of enabled the registered handlers closed over
  drawing,      \* the registered handlers' closure variable
  last,         \* the registered handlers' closure variable
  pressed,      \* the pointer that is down, having gone down on the canvas
  teardowns,    \* overlay setups torn down so far (saturating)
  hostFits,     \* the host box still covers the canvas as last sized
  call          \* a call of one of the page's pure functions: argument and result

vars == << ui, mounted, activeKanji, entry, svgText, svgErr, fetches, loads,
           loadGen, writer, domGen, discarded, animating, animKey, effect, isAnimating,
           abort, loops, reveal, drawMode, hasInk, ink, listeners, enabled,
           drawing, last, pressed, teardowns, hostFits, call >>

\* every variable of the page itself
pageVars == << ui, mounted, activeKanji, entry, svgText, svgErr, fetches, loads,
               loadGen, writer, domGen, discarded, animating, animKey, effect,
               isAnimating, abort, loops, reveal, drawMode, hasInk, ink, listeners,
               enabled, drawing, last, pressed, teardowns, hostFits >>

loaderVars == << svgText, svgErr, fetches, loads, loadGen, writer, domGen, discarded >>
animVars == << animating, animKey, effect, isAnimating, abort, loops, reveal >>
overlayVars == << drawMode, hasInk, ink, listeners, enabled, drawing, last, teardowns,
                 hostFits >>

NoPathMsg == "Khong co SVG path."
ErrMsg(outcome) ==
  IF outcome = "http" THEN "Load SVG failed: HTTP 404" ELSE "Failed to fetch"

TickMs == IF ui = "App" THEN GCD(dur, gap) ELSE GCD(perStrokeMs, gapMs)

Plain == [st |-> "plain", left |-> 0, delay |-> 0]
FreshDom(markup) == [i \in 1..Len(PathsOf(markup)) |-> Plain]

NoLoop == [next |-> 0, wait |-> 0, strokes |-> << >>, dom |-> 0, stopped |-> FALSE]
EffectIdle == [phase |-> "idle", left |-> 0, host |-> << >>, live |-> FALSE]

ResizeTypes == {"ResizeObserver", "window.resize"}
PointerTypes == {"pointerdown", "pointermove", "pointerup", "pointercancel",
                 "touchstart", "touchmove", "touchend"}
ModalTypes == {"ResizeObserver", "pointerdown", "pointermove", "window.pointerup"}
EventTypes == ResizeTypes \cup PointerTypes \cup ModalTypes

Bump(n) == Min(n + 1, MaxSetups)

\* a canvas effect that sets up whatever drawMode is
CanvasEffectUnconditional(dm) == TRUE

\* KanjiModal's canvas effect returns before any setup unless drawMode is on
CanvasEffectSetsUp(dm) == dm

(***************************************************************************)
(* Init: App as constructed (no item open); KanjiModal as mounted with an  *)
(* entry, its load effect having started loadSvg.                          *)
(***************************************************************************)
\* no call of a pure function under way
NoCall == [fn |-> "none", arg |-> << >>, out |-> << >>, done |-> FALSE]

Page ==
  /\ ui \in UIs
  /\ mounted = TRUE
  /\ activeKanji = Null
  /\ entry \in (IF ui = "App" THEN {Null} ELSE Kanji)
  /\ svgText = << >>
  /\ svgErr = IF ui = "KanjiModal" /\ safeSvgUrl(entry) = << >> THEN NoPathMsg ELSE ""
  /\ fetches = [k \in Kanji |-> 0]
  /\ loads = IF ui = "KanjiModal" /\ safeSvgUrl(entry) # << >>
             THEN {[gen |-> 1, url |-> safeSvgUrl(entry), cancelled |-> FALSE]}
             ELSE {}
  /\ loadGen = IF ui = "KanjiModal" THEN 1 ELSE 0
  /\ writer = loadGen
  /\ domGen = 0
  /\ discarded = 0
  /\ animating = FALSE
  /\ animKey = 0
  /\ effect = EffectIdle
  /\ isAnimating = FALSE
  /\ abort = FALSE
  /\ loops = [s \in 1..MaxLoops |-> NoLoop]
  /\ reveal = << >>
  /\ drawMode = FALSE
  /\ hasInk = FALSE
  /\ ink = {}
  /\ listeners = [t \in EventTypes |->
                    IF ui = "KanjiModal" /\ CanvasEffectSetsUp(FALSE) /\ t \in ModalTypes
                    THEN 1 ELSE 0]
  /\ enabled = FALSE
  /\ drawing = FALSE
  /\ last = Null
  /\ pressed = "none"
  /\ teardowns = 0
  /\ hostFits = TRUE

Init == Page /\ call = NoCall


(***************************************************************************)
(* App: useCanvasDraw's two effects.  The resize effect depends on         *)
(* mountedKey, the pointer effect on enabled and mountedKey; an effect     *)
(* whose dependencies changed runs its cleanup and then its body, and the  *)
(* body sets up only if the canvas exists (the detail modal is open).      *)
(***************************************************************************)
ResizeEffectChanged(key0, key1) == key0 # key1

PointerEffectChanged(key0, key1, en0, en1) == key0 # key1 \/ en0 # en1

ResizeCleanupTypes == {"ResizeObserver", "window.resize"}

\* a cleanup that leaves the touch fallbacks registered
PointerCleanupLeaky == {"pointerdown", "pointermove", "pointerup", "pointercancel"}

PointerCleanupTypes == {"pointerdown", "pointermove", "pointerup", "pointercancel",
                        "touchstart", "touchmove", "touchend"}

\* the overlay after a render with mountedKey key1 and enabled en1, the
\* handler having left inkH on the canvas
AppOverlay(key1, en1, inkH) ==
  LET rz == ResizeEffectChanged(activeKanji, key1)
      pt == PointerEffectChanged(activeKanji, key1, drawMode, en1)
      had == activeKanji # Null
      has == key1 # Null
      removed(t) == (IF rz /\ had /\ t \in ResizeCleanupTypes THEN 1 ELSE 0)
                    + (IF pt /\ had /\ t \in PointerCleanupTypes THEN 1 ELSE 0)
      added(t) == (IF rz /\ has /\ t \in ResizeTypes THEN 1 ELSE 0)
                  + (IF pt /\ has /\ t \in PointerTypes THEN 1 ELSE 0)
  IN /\ listeners' = [t \in EventTypes |-> listeners[t] - removed(t) + added(t)]
     \* a new canvas is blank, and resize() assigns canvas.width, which blanks it
     /\ ink' = IF ~has \/ rz THEN {} ELSE inkH
     /\ enabled' = IF pt THEN en1 ELSE enabled
     /\ drawing' = IF pt THEN FALSE ELSE drawing
     /\ last' = IF pt THEN Null ELSE last
     /\ teardowns' = IF (rz \/ pt) /\ had THEN Bump(teardowns) ELSE teardowns
     \* clear() measures the canvas itself, which its observer keeps sized
     /\ hostFits' = hostFits

\* the injected SVG container after a render: gone with an empty svgText or
\* a closed modal, rebuilt when its key or its markup changed
AppDom(key1, animKey1, svg1) ==
  IF key1 = Null \/ svg1 = << >> THEN << >>
  ELSE IF key1 # activeKanji \/ animKey1 # animKey \/ svg1 # svgText
            \/ activeKanji = Null
       THEN FreshDom(svg1)
       ELSE reveal

Pending == fetches["nichi"] + fetches["tsuki"] + fetches["kuni"]

modalVars == << mounted, entry, svgErr, loads, loadGen, writer, domGen, discarded,
                isAnimating, abort, loops >>

openDetail(k) ==
  LET code == toLowerCase(codepoint_hex(k)) IN
  /\ ui = "App"
  /\ UNCHANGED call
  /\ code # "" => Pending < MaxPending
  /\ activeKanji' = k
  /\ drawMode' = FALSE
  /\ animating' = FALSE
  /\ animKey' = 0
  /\ hasInk' = IF activeKanji # Null THEN FALSE ELSE hasInk
  /\ svgText' = << >>
  /\ fetches' = IF code # "" THEN [fetches EXCEPT ![k] = @ + 1] ELSE fetches
  /\ AppOverlay(k, FALSE, {})
  /\ effect' = EffectIdle
  /\ reveal' = AppDom(k, 0, << >>)
  /\ UNCHANGED << ui, pressed >>
  /\ UNCHANGED modalVars

\* the continuation of openDetail after await fetchText
FetchResolve(k, outcome) ==
  LET code == toLowerCase(codepoint_hex(k))
      text == IF outcome \in {"ok", "html"}
              THEN sanitizeKanjivgSvg(Body(AppSvgUrl(code), outcome))
              ELSE << >>
  IN
  /\ ui = "App"
  /\ UNCHANGED call
  /\ fetches[k] > 0
  /\ fetches' = [fetches EXCEPT ![k] = @ - 1]
  /\ svgText' = text
  /\ reveal' = AppDom(activeKanji, animKey, text)
  /\ effect' = IF effect.phase = "idle" \/ ~effect.live THEN effect
               ELSE IF text = << >> THEN [effect EXCEPT !.live = FALSE]
               ELSE [effect EXCEPT !.host = text]
  /\ UNCHANGED << ui, activeKanji, animating, animKey, pressed >>
  /\ UNCHANGED overlayVars
  /\ UNCHANGED modalVars

closeDetail ==
  /\ UNCHANGED call
  /\ ui = "App"
  /\ activeKanji # Null
  /\ activeKanji' = Null
  /\ svgText' = << >>
  /\ drawMode' = FALSE
  /\ animating' = FALSE
  /\ animKey' = 0
  /\ hasInk' = FALSE
  /\ AppOverlay(Null, FALSE, {})
  /\ effect' = EffectIdle
  /\ reveal' = << >>
  /\ UNCHANGED << ui, fetches, pressed >>
  /\ UNCHANGED modalVars

playSvg ==
  /\ UNCHANGED call
  /\ ui = "App"
  /\ activeKanji # Null
  /\ svgText # << >>
  /\ animKey < MaxAnimKey
  /\ drawMode' = FALSE
  /\ hasInk' = FALSE
  /\ animating' = TRUE
  /\ animKey' = animKey + 1
  /\ AppOverlay(activeKanji, FALSE, {})
  /\ effect' = [phase |-> "raf1", left |-> 0, host |-> svgText, live |-> TRUE]
  /\ reveal' = AppDom(activeKanji, animKey + 1, svgText)
  /\ UNCHANGED << ui, activeKanji, svgText, fetches, pressed >>
  /\ UNCHANGED modalVars

\* the brush button of App
AppBrush ==
  /\ UNCHANGED call
  /\ ui = "App"
  /\ activeKanji # Null
  /\ animating' = FALSE
  /\ drawMode' = ~drawMode
  /\ AppOverlay(activeKanji, ~drawMode, ink)
  /\ effect' = EffectIdle
  /\ UNCHANGED << ui, activeKanji, svgText, fetches, animKey, reveal, hasInk, pressed >>
  /\ UNCHANGED modalVars

\* the trash button of App (disabled without ink): useCanvasDraw.clear
clear ==
  /\ UNCHANGED call
  /\ ui = "App"
  /\ activeKanji # Null
  /\ hasInk
  /\ ink' = {}
  /\ hasInk' = FALSE
  /\ UNCHANGED << ui, activeKanji, svgText, fetches, animating, animKey, effect,
                  reveal, drawMode, listeners, enabled, drawing, last, teardowns,
                  pressed, hostFits >>
  /\ UNCHANGED modalVars

(***************************************************************************)
(* App: the animation effect (two animation frames, then run) and          *)
(* animateKanjiSvg.                                                        *)
(***************************************************************************)
\* the style animateKanjiSvg gives path i (counted from 0)
AnimatedPath(i) ==
  [st |-> IF i * gap = 0 THEN "running" ELSE "delayed", left |-> dur, delay |-> i * gap]

animateKanjiSvg(markup) == [i \in 1..Len(PathsOf(markup)) |-> AnimatedPath(i - 1)]

TotalMs(markup) ==
  LET n == Len(PathsOf(markup)) IN
  IF n = 0 THEN 0 ELSE (n - 1) * gap + dur

Raf1 ==
  /\ UNCHANGED call
  /\ ui = "App"
  /\ effect.phase = "raf1"
  /\ effect' = [effect EXCEPT !.phase = "raf2"]
  /\ UNCHANGED << ui, activeKanji, svgText, fetches, animating, animKey, reveal, pressed >>
  /\ UNCHANGED overlayVars
  /\ UNCHANGED modalVars

run ==
  /\ UNCHANGED call
  /\ ui = "App"
  /\ effect.phase = "raf2"
  /\ IF ~HasSvg(effect.host)
     THEN /\ animating' = FALSE
          /\ effect' = EffectIdle
          /\ reveal' = reveal
     ELSE /\ animating' = animating
          /\ effect' = [effect EXCEPT
                          !.phase = "timer",
                          !.left = Max(MinAnimMs, TotalMs(effect.host) + AnimSlackMs)]
          /\ reveal' = IF effect.live THEN animateKanjiSvg(effect.host) ELSE reveal
  /\ UNCHANGED << ui, activeKanji, svgText, fetches, animKey, pressed >>
  /\ UNCHANGED overlayVars
  /\ UNCHANGED modalVars

\* a completion timer whose callback leaves animating as it is
AnimTimeoutKeeps ==
  /\ UNCHANGED call
  /\ ui = "App"
  /\ effect.phase = "timer"
  /\ effect.left = 0
  /\ animating' = animating
  /\ effect' = EffectIdle
  /\ UNCHANGED << ui, activeKanji, svgText, fetches, animKey, reveal, pressed >>
  /\ UNCHANGED overlayVars
  /\ UNCHANGED modalVars

\* the completion timer set by run
AnimTimeout ==
  /\ UNCHANGED call
  /\ ui = "App"
  /\ effect.phase = "timer"
  /\ effect.left = 0
  /\ animating' = FALSE
  /\ effect' = EffectIdle
  /\ UNCHANGED << ui, activeKanji, svgText, fetches, animKey, reveal, pressed >>
  /\ UNCHANGED overlayVars
  /\ UNCHANGED modalVars


(***************************************************************************)
(* KanjiModal: the load effect (loadSvg and its cancelled flag).           *)
(***************************************************************************)
appVars == << activeKanji, fetches, animating, animKey, effect, hasInk, enabled >>

\* a cleanup that forgets to set the flag
CancelForgotten(l) == l

\* the effect's cleanup, as seen by a loadSvg call still awaiting its fetch
Cancel(l) == [l EXCEPT !.cancelled = TRUE]

\* loadSvg without its setSvgText("")
svgTextKept(prev) == prev

\* setSvgText("") at the start of loadSvg
svgTextReset(prev) == << >>

SetEntry(k) ==
  LET url == safeSvgUrl(k) IN
  /\ ui = "KanjiModal"
  /\ UNCHANGED call
  /\ mounted
  /\ k # entry
  /\ entry' = k
  /\ IF url = safeSvgUrl(entry)
     THEN UNCHANGED << svgText, svgErr, loads, loadGen, writer, domGen, reveal >>
     ELSE /\ loadGen < MaxLoads
          /\ loadGen' = loadGen + 1
          /\ writer' = loadGen + 1
          /\ svgErr' = IF url = << >> THEN NoPathMsg ELSE ""
          /\ svgText' = svgTextReset(svgText)
          /\ loads' = {Cancel(l) : l \in loads} \cup
                      (IF url = << >> THEN {}
                       ELSE {[gen |-> loadGen + 1, url |-> url, cancelled |-> FALSE]})
          /\ domGen' = 0
          /\ reveal' = << >>
  /\ UNCHANGED << ui, mounted, discarded, isAnimating, abort, loops, pressed >>
  /\ UNCHANGED << drawMode, ink, listeners, drawing, last, teardowns, hostFits >>
  /\ UNCHANGED appVars

\* the continuation of loadSvg after its awaits
LoadResolve(l, outcome) ==
  /\ UNCHANGED call
  /\ ui = "KanjiModal"
  /\ l \in loads
  /\ loads' = loads \ {l}
  /\ discarded' = IF l.cancelled THEN l.gen ELSE discarded
  /\ IF l.cancelled \/ ~mounted
     THEN UNCHANGED << svgText, svgErr, writer, domGen, reveal >>
     ELSE IF outcome \in {"ok", "html"}
     THEN /\ svgText' = cleaned(Body(l.url, outcome))
          /\ svgErr' = svgErr
          /\ writer' = l.gen
          /\ domGen' = IF svgErr = "" THEN l.gen ELSE 0
          /\ reveal' = IF svgErr = "" THEN FreshDom(svgText') ELSE << >>
     ELSE /\ svgErr' = ErrMsg(outcome)
          /\ svgText' = svgText
          /\ writer' = l.gen
          /\ domGen' = 0
          /\ reveal' = << >>
  /\ UNCHANGED << ui, mounted, entry, loadGen, isAnimating, abort, loops, pressed >>
  /\ UNCHANGED << drawMode, ink, listeners, drawing, last, teardowns, hostFits >>
  /\ UNCHANGED appVars

(***************************************************************************)
(* KanjiModal: the canvas effect, which depends on drawMode alone.         *)
(***************************************************************************)
ModalCleanupTypes == {"ResizeObserver", "pointerdown", "pointermove", "window.pointerup"}

\* the overlay after a render with drawMode dm1 (mt1: still mounted), the
\* handler having left inkH on the canvas
ModalOverlay(dm1, mt1, inkH) ==
  LET torn == (dm1 # drawMode \/ ~mt1) /\ CanvasEffectSetsUp(drawMode)
      setup == dm1 # drawMode /\ mt1 /\ CanvasEffectSetsUp(dm1)
  IN /\ listeners' = [t \in EventTypes |->
                        listeners[t]
                        - (IF torn /\ t \in ModalCleanupTypes THEN 1 ELSE 0)
                        + (IF setup /\ t \in ModalTypes THEN 1 ELSE 0)]
     \* resize() assigns canvas.width, which blanks the canvas
     /\ ink' = IF ~mt1 \/ setup THEN {} ELSE inkH
     /\ drawing' = IF torn \/ setup THEN FALSE ELSE drawing
     /\ last' = IF torn \/ setup THEN Null ELSE last
     /\ teardowns' = IF torn THEN Bump(teardowns) ELSE teardowns
     \* resize() sizes the canvas to the host box
     /\ hostFits' = IF setup \/ ~mt1 THEN TRUE ELSE hostFits

\* the sampled points of the canvas a shrunken host box no longer covers
Beyond == {"p2"}

\* the brush button of KanjiModal
ModalBrush ==
  /\ UNCHANGED call
  /\ ui = "KanjiModal"
  /\ mounted
  /\ drawMode' = ~drawMode
  /\ ModalOverlay(~drawMode, TRUE, ink)
  /\ UNCHANGED << ui, mounted, entry, pressed >>
  /\ UNCHANGED loaderVars
  /\ UNCHANGED << isAnimating, abort, loops, reveal >>
  /\ UNCHANGED appVars

clearCanvas ==
  /\ UNCHANGED call
  /\ ui = "KanjiModal"
  /\ mounted
  \* clearRect over the host box, in the units of the last resize()
  /\ ink' = IF hostFits THEN {} ELSE {s \in ink : s[1] \in Beyond \/ s[2] \in Beyond}
  /\ UNCHANGED << ui, mounted, entry, pressed >>
  /\ UNCHANGED loaderVars
  /\ UNCHANGED << isAnimating, abort, loops, reveal >>
  /\ UNCHANGED << drawMode, listeners, drawing, last, teardowns, hostFits >>
  /\ UNCHANGED appVars

\* onClose: the parent unmounts KanjiModal; every effect's cleanup runs and
\* the component's state is gone
Unmount ==
  /\ UNCHANGED call
  /\ ui = "KanjiModal"
  /\ mounted
  /\ mounted' = FALSE
  /\ loads' = {Cancel(l) : l \in loads}
  /\ ModalOverlay(FALSE, FALSE, ink)
  /\ drawMode' = FALSE
  /\ svgText' = << >>
  /\ svgErr' = ""
  /\ isAnimating' = FALSE
  /\ domGen' = 0
  /\ reveal' = << >>
  /\ UNCHANGED << ui, entry, loadGen, writer, discarded, abort, loops, pressed >>
  /\ UNCHANGED appVars


(***************************************************************************)
(* KanjiModal: playAnimation and stopAnimation.  The button calls          *)
(* stopAnimation when the rendered isAnimating is true and playAnimation   *)
(* otherwise.  A loop lives in a slot from its first sleep to its exit.    *)
(***************************************************************************)
Range(f) == {f[i] : i \in DOMAIN f}
Hidden == [st |-> "hidden", left |-> 0, delay |-> 0]

\* p.style.transition = ...; p.style.strokeDashoffset = "0"
StartReveal(r) ==
  IF r.st = "hidden" THEN [st |-> "running", left |-> perStrokeMs, delay |-> 0] ELSE r

SleepMs == perStrokeMs + gapMs

FreeSlots == {s \in 1..MaxLoops : loops[s] = NoLoop}
InFlight == {s \in 1..MaxLoops : loops[s] # NoLoop}

playAnimation ==
  /\ UNCHANGED call
  /\ ui = "KanjiModal"
  /\ mounted
  /\ ~isAnimating
  /\ IF ~(svgErr = "" /\ HasSvg(svgText))
     THEN UNCHANGED << isAnimating, abort, loops, reveal >>
     ELSE LET strokes == extractStrokes(svgText) IN
          /\ abort' = FALSE
          /\ IF strokes = << >>
             THEN UNCHANGED << isAnimating, loops, reveal >>
             ELSE /\ FreeSlots # {}
                  /\ isAnimating' = TRUE
                  /\ loops' = [loops EXCEPT ![Least(FreeSlots)] =
                                 [next |-> 2, wait |-> SleepMs, strokes |-> strokes,
                                  dom |-> domGen, stopped |-> FALSE]]
                  /\ reveal' = [i \in DOMAIN reveal |->
                                  IF i = strokes[1] THEN StartReveal(Hidden)
                                  ELSE IF i \in Range(strokes) THEN Hidden
                                  ELSE reveal[i]]
  /\ UNCHANGED << ui, mounted, entry, pressed >>
  /\ UNCHANGED loaderVars
  /\ UNCHANGED << drawMode, ink, listeners, drawing, last, teardowns, hostFits >>
  /\ UNCHANGED appVars

stopAnimation ==
  /\ UNCHANGED call
  /\ ui = "KanjiModal"
  /\ mounted
  /\ isAnimating
  /\ abort' = TRUE
  /\ isAnimating' = FALSE
  /\ loops' = [s \in 1..MaxLoops |->
                 IF loops[s] = NoLoop THEN NoLoop ELSE [loops[s] EXCEPT !.stopped = TRUE]]
  /\ UNCHANGED << ui, mounted, entry, pressed, reveal >>
  /\ UNCHANGED loaderVars
  /\ UNCHANGED << drawMode, ink, listeners, drawing, last, teardowns, hostFits >>
  /\ UNCHANGED appVars

\* the loop's exit test: the abort flag, then the end of the stroke list
LoopExits(l) == abort \/ l.next > Len(l.strokes)

\* a loop resumes after await sleep(perStrokeMs + gapMs)
LoopWake(s) ==
  LET l == loops[s] IN
  /\ ui = "KanjiModal"
  /\ UNCHANGED call
  /\ l # NoLoop
  /\ l.wait = 0
  /\ IF LoopExits(l)
     THEN /\ loops' = [loops EXCEPT ![s] = NoLoop]
          /\ isAnimating' = FALSE
          /\ reveal' = reveal
     ELSE /\ loops' = [loops EXCEPT ![s] = [l EXCEPT !.next = @ + 1, !.wait = SleepMs]]
          /\ isAnimating' = isAnimating
          \* the handles belong to the document the loop was started on
          /\ reveal' = IF l.dom = domGen /\ domGen # 0
                       THEN [reveal EXCEPT ![l.strokes[l.next]] = StartReveal(@)]
                       ELSE reveal
  /\ UNCHANGED << ui, mounted, entry, pressed, abort >>
  /\ UNCHANGED loaderVars
  /\ UNCHANGED << drawMode, ink, listeners, drawing, last, teardowns, hostFits >>
  /\ UNCHANGED appVars

(***************************************************************************)
(* Time: TickMs milliseconds pass for every sleeping loop, every pending   *)
(* timer and every CSS transition or animation.                            *)
(***************************************************************************)
TickPath(r) ==
  CASE r.st = "running" ->
         IF r.left - TickMs <= 0 THEN [st |-> "shown", left |-> 0, delay |-> 0]
         ELSE [r EXCEPT !.left = @ - TickMs]
    [] r.st = "delayed" ->
         IF r.delay - TickMs <= 0 THEN [st |-> "running", left |-> r.left, delay |-> 0]
         ELSE [r EXCEPT !.delay = @ - TickMs]
    [] OTHER -> r

Tick ==
  /\ UNCHANGED call
  /\ \/ \E s \in 1..MaxLoops : loops[s].wait > 0
     \/ \E i \in DOMAIN reveal : reveal[i].st \in {"running", "delayed"}
     \/ effect.left > 0
  /\ loops' = [s \in 1..MaxLoops |-> [loops[s] EXCEPT !.wait = Max(0, @ - TickMs)]]
  /\ reveal' = [i \in DOMAIN reveal |-> TickPath(reveal[i])]
  /\ effect' = [effect EXCEPT !.left = Max(0, @ - TickMs)]
  /\ UNCHANGED << ui, mounted, activeKanji, entry, pressed >>
  /\ UNCHANGED loaderVars
  /\ UNCHANGED << animating, animKey, isAnimating, abort >>
  /\ UNCHANGED overlayVars


(***************************************************************************)
(* The overlays' pointer handlers.  A handler works on the closure         *)
(* variables of its effect run (drawing, last) and on the canvas.          *)
(***************************************************************************)
Closure == [drawing |-> drawing, last |-> last, ink |-> ink, hasInk |-> hasInk]

\* useCanvasDraw (App)
start(c, p) ==
  IF ~enabled THEN c ELSE [c EXCEPT !.drawing = TRUE, !.last = p]

move(c, p) ==
  IF ~enabled \/ ~c.drawing THEN c
  ELSE LET from == IF c.last = Null THEN p ELSE c.last IN
       [c EXCEPT !.ink = @ \cup {<< from, p >>}, !.last = p, !.hasInk = TRUE]

end(c) ==
  IF ~enabled THEN c ELSE [c EXCEPT !.drawing = FALSE, !.last = Null]

\* KanjiModal's canvas effect
onDown(c, p) == [c EXCEPT !.drawing = TRUE, !.last = p]

onMove(c, p) ==
  IF ~c.drawing \/ c.last = Null THEN c
  ELSE [c EXCEPT !.ink = @ \cup {<< c.last, p >>}, !.last = p]

onUp(c) == [c EXCEPT !.drawing = FALSE, !.last = Null]

\* the browser delivers an event of type t to the handler registered for it
Dispatch(c, t, p) ==
  IF listeners[t] = 0 THEN c
  ELSE CASE ui = "App" /\ t \in {"pointerdown", "touchstart"} -> start(c, p)
         [] ui = "App" /\ t \in {"pointermove", "touchmove"} -> move(c, p)
         [] ui = "App" /\ t \in {"pointerup", "pointercancel", "touchend"} -> end(c)
         [] ui = "KanjiModal" /\ t = "pointerdown" -> onDown(c, p)
         [] ui = "KanjiModal" /\ t = "pointermove" -> onMove(c, p)
         [] ui = "KanjiModal" /\ t = "window.pointerup" -> onUp(c)
         [] OTHER -> c

Deliver(c) ==
  /\ drawing' = c.drawing
  /\ last' = c.last
  /\ ink' = c.ink
  /\ hasInk' = c.hasInk

CanvasExists == IF ui = "App" THEN activeKanji # Null ELSE mounted

PointerKinds == {"mouse", "touch"}

eventFrame ==
  /\ UNCHANGED call
  /\ UNCHANGED << ui, mounted, activeKanji, entry >>
  /\ UNCHANGED loaderVars
  /\ UNCHANGED animVars
  /\ UNCHANGED << drawMode, listeners, enabled, teardowns, hostFits >>

\* a pointer goes down on the canvas; a touch also fires touchstart
PointerDown(kind, p) ==
  /\ CanvasExists
  /\ pressed = "none"
  /\ pressed' = kind
  /\ LET c1 == Dispatch(Closure, "pointerdown", p)
         c2 == IF kind = "touch" THEN Dispatch(c1, "touchstart", p) ELSE c1
     IN Deliver(c2)
  /\ eventFrame

\* a pointer moves over the canvas: a mouse with or without its button
\* down, a touch only while it is down
PointerMove(kind, p) ==
  /\ CanvasExists
  /\ \/ kind = "mouse" /\ pressed \in {"none", "mouse"}
     \/ kind = "touch" /\ pressed = "touch"
  /\ pressed' = pressed
  /\ LET c1 == Dispatch(Closure, "pointermove", p)
         c2 == IF kind = "touch" THEN Dispatch(c1, "touchmove", p) ELSE c1
     IN Deliver(c2)
  /\ eventFrame

\* the pointer is released.  A touch is captured by the canvas, a mouse is
\* not: released off the canvas, its pointerup reaches only the window.
PointerUp(kind, over) ==
  /\ pressed = kind
  /\ kind = "touch" => over
  /\ pressed' = "none"
  /\ LET c1 == IF over THEN Dispatch(Closure, "pointerup", Null) ELSE Closure
         c2 == Dispatch(c1, "window.pointerup", Null)
         c3 == IF kind = "touch" THEN Dispatch(c2, "touchend", Null) ELSE c2
     IN Deliver(c3)
  /\ eventFrame

\* the browser takes a touch over (a pan, a gesture): pointercancel
PointerCancel ==
  /\ pressed = "touch"
  /\ pressed' = "none"
  /\ Deliver(Dispatch(Closure, "pointercancel", Null))
  /\ eventFrame

\* the host box or the window changes size.  With an observer registered
\* resize() runs: it sizes the canvas to the box, which blanks it.  Without
\* one (KanjiModal out of draw mode) the canvas keeps the size it had.
HostResize(fits) ==
  /\ UNCHANGED call
  /\ CanvasExists
  /\ IF listeners["ResizeObserver"] > 0 \/ listeners["window.resize"] > 0
     THEN ink' = {} /\ hostFits' = TRUE
     ELSE ink' = ink /\ hostFits' = fits
  /\ UNCHANGED << ui, mounted, activeKanji, entry, pressed >>
  /\ UNCHANGED loaderVars
  /\ UNCHANGED animVars
  /\ UNCHANGED << drawMode, hasInk, listeners, enabled, drawing, last, teardowns >>

(***************************************************************************)
(* The specifications.  Next is every step of the page.  The three         *)
(* specifications below each take the steps that write one group of        *)
(* variables, or a variable a guard of such a step reads; the steps left   *)
(* out neither write these variables nor enable or disable a step taken,   *)
(* so a property of the group holds of Spec exactly if it holds of the     *)
(* group's specification.                                                  *)
(*   SpecLoad: svgText, svgErr and the fetches in flight.                  *)
(*   SpecAnim: the animation state and the path styles.                    *)
(*   SpecDraw: draw mode, the canvas and its listeners.                    *)
(***************************************************************************)
AppLoadStep ==
  \/ \E k \in Kanji : openDetail(k)
  \/ \E k \in Kanji, o \in Outcomes : FetchResolve(k, o)
  \/ closeDetail

ModalLoadStep ==
  \/ \E k \in Kanji : SetEntry(k)
  \/ \E l \in loads, o \in Outcomes : LoadResolve(l, o)
  \/ Unmount

AppAnimStep ==
  \/ playSvg
  \/ AppBrush
  \/ Raf1
  \/ run
  \/ AnimTimeout

ModalAnimStep ==
  \/ playAnimation
  \/ stopAnimation
  \/ \E s \in 1..MaxLoops : LoopWake(s)

PointerStep ==
  \/ \E kind \in PointerKinds, p \in Points : PointerDown(kind, p)
  \/ \E kind \in PointerKinds, p \in Points : PointerMove(kind, p)
  \/ \E kind \in PointerKinds, over \in BOOLEAN : PointerUp(kind, over)
  \/ PointerCancel
  \/ \E fits \in BOOLEAN : HostResize(fits)

NextLoad == AppLoadStep \/ ModalLoadStep

NextAnim ==
  \/ AppLoadStep
  \/ ModalLoadStep
  \/ AppAnimStep
  \/ ModalAnimStep
  \/ ModalBrush
  \/ Tick

NextDraw ==
  \/ AppLoadStep
  \/ playSvg
  \/ AppBrush
  \/ clear
  \/ ModalBrush
  \/ clearCanvas
  \/ Unmount
  \/ PointerStep

Next == NextLoad \/ NextAnim \/ NextDraw

Spec == Init /\ [][Next]_vars
SpecLoad == Init /\ [][NextLoad]_vars
SpecAnim == Init /\ [][NextAnim]_vars
SpecDraw == Init /\ [][NextDraw]_vars

\* The browser runs what it has queued: animation frames are delivered,
\* timers fire, time passes and a sleeping loop resumes.  Nothing is assumed
\* of the user.
Scheduling ==
  /\ WF_vars(Tick)
  /\ WF_vars(Raf1)
  /\ WF_vars(run)
  /\ WF_vars(AnimTimeout)
  /\ \A s \in 1..MaxLoops : WF_vars(LoopWake(s))

\* loading and animation without the drawing overlay, which neither reads
\* nor writes the animation state
NextAnimFair ==
  \/ AppLoadStep
  \/ ModalLoadStep
  \/ AppAnimStep
  \/ ModalAnimStep
  \/ Tick

SpecAnimFair == Init /\ [][NextAnimFair]_vars /\ Scheduling

(***************************************************************************)
(* AdminPage: JavaScript values as far as normalizeKanjiItem tells them    *)
(* apart.  A number carries its decimal text, an object its own fields.    *)
(***************************************************************************)
Undef == [t |-> "undefined", v |-> ""]
JsNull == [t |-> "null", v |-> ""]
Str(s) == [t |-> "string", v |-> s]
Num(s) == [t |-> "number", v |-> s]
Bool(b) == [t |-> "boolean", v |-> IF b THEN "true" ELSE "false"]
Arr(seq) == [t |-> "array", v |-> seq]
Obj(rec) == [t |-> "object", v |-> rec]
EmptyObj == Obj(<< >>)

\* x ?? y
Nullish(x) == x.t \in {"undefined", "null"}
Coalesce(x, y) == IF Nullish(x) THEN y ELSE x

\* x.f and x?.f, of a value that is not null or undefined where x.f is used
Get(x, f) == IF x.t = "object" /\ f \in DOMAIN x.v THEN x.v[f] ELSE Undef

Truthy(x) ==
  CASE x.t \in {"undefined", "null"} -> FALSE
    [] x.t = "string" -> Len(x.v) > 0
    [] x.t = "number" -> x.v \notin {"0", "NaN"}
    [] x.t = "boolean" -> x.v = "true"
    [] OTHER -> TRUE

isArray(x) == x.t = "array"

\* x.toString(), as a string value
RECURSIVE toString(_)
toString(x) ==
  CASE x.t \in {"string", "number", "boolean"} -> Str(x.v)
    [] x.t = "array" ->
         (IF x.v = << >> THEN Str("")
          ELSE LET h == IF Nullish(Head(x.v)) THEN "" ELSE toString(Head(x.v)).v
               IN IF Len(x.v) = 1 THEN Str(h)
                  ELSE Str(h \o "," \o toString(Arr(Tail(x.v))).v))
    [] OTHER -> Str("[object Object]")

\* ch.codePointAt(0) of the characters used: U+65E5, U+20BB7, U+100000, a, 5
codePointAt0(ch) ==
  CASE ch = "nichi" -> 26085
    [] ch = "yoshi" -> 134071
    [] ch = "pua" -> 1048576
    [] ch = "a" -> 97
    [] ch = "5" -> 53
    [] OTHER -> 63

HexDigits == << "0", "1", "2", "3", "4", "5", "6", "7", "8", "9",
               "a", "b", "c", "d", "e", "f" >>

\* cp.toString(16), digit by digit
RECURSIVE toString16(_)
toString16(n) ==
  IF n < 16 THEN << HexDigits[n + 1] >>
  ELSE toString16(n \div 16) \o << HexDigits[(n % 16) + 1] >>

RECURSIVE padStart(_, _, _)
padStart(digits, width, fill) ==
  IF Len(digits) >= width THEN digits ELSE padStart(<< fill >> \o digits, width, fill)

RECURSIVE Join(_)
Join(digits) == IF digits = << >> THEN "" ELSE Head(digits) \o Join(Tail(digits))

HexWidth == 5

\* a helper that pads to four digits
toCodepointHexPad4(ch) ==
  IF ch = "" THEN "" ELSE Join(padStart(toString16(codePointAt0(ch)), 4, "0"))

toCodepointHex(ch) ==
  IF ch = "" THEN ""
  ELSE Join(padStart(toString16(codePointAt0(ch)), HexWidth, "0"))

\* (x ?? "").toString()
Text(x) == toString(Coalesce(x, Str("")))

normExample(ex) ==
  Obj([tu |-> Text(Get(ex, "tu")),
       hiragana |-> Text(Get(ex, "hiragana")),
       nghia |-> Text(Get(ex, "nghia"))])

normReading(r) ==
  LET rr == Coalesce(r, EmptyObj)
      viDu == Get(rr, "viDu")
  IN Obj([am |-> Text(Get(rr, "am")),
          nghia |-> Text(Get(rr, "nghia")),
          viDu |-> IF isArray(viDu)
                   THEN Arr([i \in DOMAIN viDu.v |-> normExample(viDu.v[i])])
                   ELSE Arr(<< >>)])

normReadings(x) ==
  IF isArray(x) THEN Arr([i \in DOMAIN x.v |-> normReading(x.v[i])]) ELSE Arr(<< >>)

\* a path made absolute by a slash put before it, whatever it starts with
svgPathSlashed(svg, hex) ==
  Str("/" \o Text(Coalesce(Get(svg, "path"),
                   IF Truthy(hex)
                   THEN Str("resources/kanji_svg/" \o toString(hex).v \o ".svg")
                   ELSE Str(""))).v)

\* (svg.path ?? (hex ? `resources/kanji_svg/${hex}.svg` : "")).toString()
svgPath(svg, hex) ==
  toString(Coalesce(Get(svg, "path"),
                    IF Truthy(hex)
                    THEN Str("resources/kanji_svg/" \o toString(hex).v \o ".svg")
                    ELSE Str("")))

\* normalizeKanjiItem(raw), nowIso() returning now
normalizeKanjiItem(raw, now) ==
  LET item == Coalesce(raw, EmptyObj)
      chu == Text(Get(item, "chu"))
      svg == Coalesce(Get(item, "svg"), EmptyObj)
      hex == Coalesce(Get(svg, "codepoint_hex"),
                      IF Truthy(chu) THEN Str(toCodepointHex(chu.v)) ELSE Str(""))
      bo == Get(item, "bo")
      exists == Get(svg, "exists")
  IN Obj([chu |-> chu,
          hanViet |-> Text(Get(item, "hanViet")),
          nghia |-> Text(Get(item, "nghia")),
          on |-> normReadings(Get(item, "on")),
          kun |-> normReadings(Get(item, "kun")),
          bo |-> IF Nullish(bo) THEN Str("") ELSE toString(bo),
          svg |-> Obj([codepoint_hex |-> hex,
                       path |-> svgPath(svg, hex),
                       exists |-> IF exists.t = "boolean" /\ exists.v = "false"
                                  THEN Bool(FALSE) ELSE Bool(TRUE)]),
          updatedAt |-> Text(Coalesce(Get(item, "updatedAt"), Str(now)))])

\* onFilePicked / openJson: JSON.parse, then data.map(normalizeKanjiItem) into
\* items; anything but an array throws and items stays as it is
loadItems(data, items, now) ==
  IF ~isArray(data) THEN items
  ELSE [i \in DOMAIN data.v |-> normalizeKanjiItem(data.v[i], now)]

(***************************************************************************)
(* KanjiModal.collectExamples.  The text of an example is a sequence of    *)
(* characters; "(" and ")" stand for both widths of the bracket and ":"    *)
(* for both widths of the colon, which the patterns do not tell apart.     *)
(***************************************************************************)
IsSpace(c) == c = " "

\* s.trim()
strTrim(s) ==
  LET keep == {i \in DOMAIN s : ~IsSpace(s[i])} IN
  IF keep = {} THEN << >>
  ELSE SubSeq(s, Least(keep), CHOOSE j \in keep : \A k \in keep : k <= j)

\* \s*[:：] matched from position k: the position of the colon, or 0
ColonFrom(s, k) ==
  LET C == {c \in k..Len(s) : s[c] = ":" /\ \A j \in k..(c - 1) : IsSpace(s[j])} IN
  IF C = {} THEN 0 ELSE Least(C)

\* [（(]([^）)]+)[）)] matched from position k: the position of the closing
\* bracket, or 0
CloseFrom(s, k) ==
  LET J == {j \in (k + 2)..Len(s) : s[j] = ")" /\ \A m \in (k + 1)..(j - 1) : s[m] # ")"} IN
  IF k \in DOMAIN s /\ s[k] = "(" /\ J # {} THEN Least(J) ELSE 0

NoMatch == [ok |-> FALSE, g |-> << >>]
Groups(g) == [ok |-> TRUE, g |-> g]

\* s.match(/^(.+?)[（(]([^）)]+)[）)]\s*[:：]\s*(.+)$/); the lazy first group
\* is the shortest that lets the rest match.  The last group is given with
\* the whitespace before it, which trim() removes.
Match1(s) ==
  LET after(i) == IF CloseFrom(s, i + 1) = 0 THEN 0
                  ELSE ColonFrom(s, CloseFrom(s, i + 1) + 1)
      I == {i \in 1..Len(s) : after(i) # 0 /\ after(i) < Len(s)}
  IN IF I = {} THEN NoMatch
     ELSE LET i == Least(I) IN
          Groups(<< SubSeq(s, 1, i),
                    SubSeq(s, i + 2, CloseFrom(s, i + 1) - 1),
                    SubSeq(s, after(i) + 1, Len(s)) >>)

\* s.match(/^(.+?)[（(]([^）)]+)[）)]$/)
Match2(s) ==
  LET I == {i \in 1..Len(s) : CloseFrom(s, i + 1) = Len(s)} IN
  IF I = {} THEN NoMatch
  ELSE LET i == Least(I) IN
       Groups(<< SubSeq(s, 1, i), SubSeq(s, i + 2, Len(s) - 1) >>)

\* s.match(/^(.+?)\s*[:：]\s*(.+)$/)
Match3(s) ==
  LET I == {i \in 1..Len(s) : ColonFrom(s, i + 1) # 0 /\ ColonFrom(s, i + 1) < Len(s)} IN
  IF I = {} THEN NoMatch
  ELSE LET i == Least(I) IN
       Groups(<< SubSeq(s, 1, i), SubSeq(s, ColonFrom(s, i + 1) + 1, Len(s)) >>)

\* the three fields pushExample reads from a string that trims to s
StringFields(s) ==
  LET m1 == Match1(s)
      m2 == Match2(s)
      m3 == Match3(s)
  IN [tu |-> strTrim(IF m1.ok THEN m1.g[1] ELSE IF m2.ok THEN m2.g[1]
                     ELSE IF m3.ok THEN m3.g[1] ELSE s),
      hiragana |-> strTrim(IF m1.ok THEN m1.g[2] ELSE IF m2.ok THEN m2.g[2] ELSE << >>),
      nghia |-> strTrim(IF m1.ok THEN m1.g[3] ELSE IF m3.ok THEN m3.g[2] ELSE << >>)]

\* `${tu}||${hiragana}||${nghia}`
KeyOf(f) == f.tu \o << "|", "|" >> \o f.hiragana \o << "|", "|" >> \o f.nghia

\* the list and the set of keys collectExamples builds; tried records every
\* triple handed to the seen test, in order
NoExamples == [out |-> << >>, seen |-> {}, tried |-> << >>]

\* a push that does not look at seen
PushAlways(st, f) ==
  [out |-> Append(st.out, f), seen |-> st.seen \cup {KeyOf(f)},
   tried |-> Append(st.tried, f)]

\* if (seen.has(key)) return; seen.add(key); out.push({tu, hiragana, nghia})
Push(st, f) ==
  IF KeyOf(f) \in st.seen THEN [st EXCEPT !.tried = Append(@, f)]
  ELSE [out |-> Append(st.out, f), seen |-> st.seen \cup {KeyOf(f)},
        tried |-> Append(st.tried, f)]

\* (ex.tu ?? ex.word ?? "").toString().trim() and its like
FieldText(ex, a, b) == strTrim(toString(Coalesce(Coalesce(Get(ex, a), Get(ex, b)), Str(<< >>))).v)

pushExample(st, ex) ==
  IF ~Truthy(ex) THEN st
  ELSE IF ex.t = "string"
  THEN (IF strTrim(ex.v) = << >> THEN st ELSE Push(st, StringFields(strTrim(ex.v))))
  ELSE LET f == [tu |-> FieldText(ex, "tu", "word"),
                 hiragana |-> FieldText(ex, "hiragana", "reading"),
                 nghia |-> FieldText(ex, "nghia", "meaning")]
       IN IF f.tu = << >> THEN st ELSE Push(st, f)

RECURSIVE ForEachExample(_, _)
ForEachExample(st, xs) ==
  IF xs = << >> THEN st ELSE ForEachExample(pushExample(st, Head(xs)), Tail(xs))

walkExampleArray(st, arr) == IF ~isArray(arr) THEN st ELSE ForEachExample(st, arr.v)

RECURSIVE ForEachReading(_, _)
ForEachReading(st, rs) ==
  IF rs = << >> THEN st
  ELSE LET r == Head(rs)
           viDu == Get(r, "viDu")
       IN ForEachReading(IF r.t = "object" /\ isArray(viDu)
                         THEN walkExampleArray(st, viDu)
                         ELSE pushExample(st, r),
                         Tail(rs))

walkReadings(st, readings) ==
  IF ~isArray(readings) THEN st ELSE ForEachReading(st, readings.v)

\* if (cond) walkExampleArray(arr)
walkExampleArrayIf(cond, st, arr) == IF cond THEN walkExampleArray(st, arr) ELSE st

collectExamples(e) ==
  LET examples == Get(e, "examples") IN
  walkExampleArrayIf(Truthy(examples) /\ Truthy(Get(examples, "on")),
    walkExampleArrayIf(Truthy(examples) /\ Truthy(Get(examples, "kun")),
      walkExampleArrayIf(Truthy(examples) /\ isArray(examples),
        walkExampleArrayIf(Truthy(Get(e, "viDu")),
          walkExampleArray(
            walkExampleArray(
              walkReadings(
                walkReadings(NoExamples, Get(e, "kun")),
                Get(e, "on")),
              Get(e, "viDuKun")),
            Get(e, "viDuOn")),
          Get(e, "viDu")),
        examples),
      Get(examples, "kun")),
    Get(examples, "on"))

(***************************************************************************)
(* App: normalizeInfo, the reader of the legacy "info" map.  The labels'   *)
(* diacritics are written in ASCII ("Nghi~a" is the label with the tilde). *)
(***************************************************************************)
Throws == [t |-> "throw", v |-> "TypeError"]

\* x || y
Or(x, y) == IF Truthy(x) THEN x ELSE y

\* get(...keys): the value under the first key that is in info, else ""
RECURSIVE get(_, _)
get(info, keys) ==
  IF keys = << >> THEN Str("")
  ELSE IF Head(keys) \in DOMAIN info.v THEN info.v[Head(keys)]
  ELSE get(info, Tail(keys))

normalizeInfo(arg) ==
  LET info == IF arg.t = "undefined" THEN EmptyObj ELSE arg
      hanTu == get(info, << "Han tu" >>)
      bo == get(info, << "Bo" >>)
  IN IF info.t # "object" \/ hanTu.t = "null" \/ bo.t = "null" THEN Throws
     ELSE Obj([hanTu |-> IF hanTu.t \in {"object", "array"}
                         THEN Or(Or(Get(hanTu, "kanji"), Get(hanTu, "text")), Str(""))
                         ELSE hanTu,
               hanViet |-> get(info, << "Han-Viet", "Han Viet", "Am Han", "Am han" >>),
               nghia |-> get(info, << "Nghi~a", "Y nghi~a", "Nghi~a:", "Nghia" >>),
               kun |-> get(info, << "Kunyomi", "Kun", "Am Kun", "Am kunyomi" >>),
               on |-> get(info, << "Onyomi", "On", "Am On", "Am onyomi" >>),
               bo |-> IF bo.t \in {"object", "array"} THEN Or(Get(bo, "text"), Str("")) ELSE bo])

(***************************************************************************)
(* The pure functions, each applied to every argument of a bounded set:    *)
(* the page is as constructed and stays so, call holds one argument, and   *)
(* the one step applies the function to it.                                *)
(***************************************************************************)
SeqsUpTo(S, n) == UNION {[1..k -> S] : k \in 0..n}

Calls(fn, args) ==
  {[fn |-> fn, arg |-> a, out |-> << >>, done |-> FALSE] : a \in args}

Return(fn, result) ==
  /\ call.fn = fn
  /\ ~call.done
  /\ call' = [call EXCEPT !.out = result, !.done = TRUE]
  /\ UNCHANGED pageVars

\* extractStrokes(svgEl): the stroke and d attributes a path may carry
StrokeAttrs == {"", "#000000", "#bcc9e2", "#BCC9E2"}
DAttrs == {"", "M1"}
PathEls == {PathEl(st, d) : st \in StrokeAttrs, d \in DAttrs}

\* an svg element with up to MaxPaths paths, or none (svgEl is null)
Documents ==
  {<< Tok("<svg>") >> \o ps \o << Tok("</svg>") >> : ps \in SeqsUpTo(PathEls, MaxPaths)}
    \cup {<< >>}

CallExtractStrokes == Return("extractStrokes", extractStrokes(call.arg))

InitExtract == Page /\ ui = "App" /\ call \in Calls("extractStrokes", Documents)
SpecExtract == InitExtract /\ [][CallExtractStrokes]_vars

\* normalizeKanjiItem(raw): the records given to it
RawChu == {Undef, Str(""), Str("nichi"), Str("yoshi"), Str("pua"), Str("a"), Num("5")}
RawText == {Undef, Str("x")}
RawReading ==
  {JsNull,
   Obj([am |-> Str("a")]),
   Obj([viDu |-> Str("x")]),
   Obj([am |-> Num("1"), nghia |-> Str("n"),
        viDu |-> Arr(<< JsNull, Obj([tu |-> Str("t"), nghia |-> Num("2")]) >>)])}
RawOn == {Undef, Str("x")} \cup {Arr(rs) : rs \in SeqsUpTo(RawReading, MaxReadings)}
RawKun == {Undef, Arr(<< JsNull >>)}
RawBo == {Undef, JsNull, Num("7")}
RawSvg ==
  {Undef} \cup
  {Obj([codepoint_hex |-> h, path |-> p, exists |-> e]) :
     h \in {Undef, Str(""), Str("065e5"), Num("123")},
     p \in {Undef, Str("custom.svg")},
     e \in {Undef, Bool(FALSE), Str("false")}}
RawItems ==
  {JsNull, Str("x")} \cup
  {Obj([chu |-> c, hanViet |-> h, on |-> o, kun |-> k, bo |-> b, svg |-> s,
        updatedAt |-> u]) :
     c \in RawChu, h \in RawText, o \in RawOn, k \in RawKun, b \in RawBo,
     s \in RawSvg, u \in {Undef, Str("t0")}}

\* what nowIso() returns at the first and at a later call
NowFirst == "now1"
NowLater == "now2"

CallNormalizeKanjiItem ==
  Return("normalizeKanjiItem", normalizeKanjiItem(call.arg, NowFirst))

\* the record returned is normalised once more (a reload of a saved list,
\* commitDraftToList)
CallNormalizeAgain ==
  /\ call.fn = "normalizeKanjiItem"
  /\ call.done
  /\ call' = [fn |-> "normalizeKanjiItem.again", arg |-> call.out,
              out |-> normalizeKanjiItem(call.out, NowLater), done |-> TRUE]
  /\ UNCHANGED pageVars

InitNormalize == Page /\ ui = "App" /\ call \in Calls("normalizeKanjiItem", RawItems)
SpecNormalize == InitNormalize /\ [][CallNormalizeKanjiItem \/ CallNormalizeAgain]_vars

\* onFilePicked: the parsed content of the picked file
BatchRaw ==
  {JsNull, Obj([chu |-> Str("nichi")]), Obj([chu |-> Str("a")]),
   Obj([chu |-> Str("")]), Obj([hanViet |-> Str("x")])}
FileData == {Str("x")} \cup {Arr(b) : b \in SeqsUpTo(BatchRaw, MaxBatch)}

CallOnFilePicked == Return("onFilePicked", loadItems(call.arg, << >>, NowFirst))

InitLoadFile == Page /\ ui = "App" /\ call \in Calls("onFilePicked", FileData)
SpecLoadFile == InitLoadFile /\ [][CallOnFilePicked]_vars

\* pushExample(ex) of a string: the characters it is made of
ExChars == {"a", "(", ")", ":", " "}
ExStrings == {Str(s) : s \in SeqsUpTo(ExChars, MaxExampleLen)}

\* pushExample(ex) into the empty list
CallPushExample == Return("pushExample", pushExample(NoExamples, call.arg).out)

InitPushExample == Page /\ ui = "KanjiModal" /\ entry = "nichi"
                   /\ call \in Calls("pushExample", ExStrings)
SpecPushExample == InitPushExample /\ [][CallPushExample]_vars

\* collectExamples(entry): examples of both shapes and a string that all
\* give the triple (a, b, ""), another example, two examples whose texts
\* hold the key's separator, and what is skipped
ExamplePool ==
  {Obj([tu |-> Str(<< "a" >>), hiragana |-> Str(<< "b" >>)]),
   Obj([word |-> Str(<< " ", "a" >>), reading |-> Str(<< "b" >>)]),
   Str(<< "a", "(", "b", ")" >>),
   Obj([tu |-> Str(<< "c" >>), nghia |-> Str(<< "b" >>)]),
   Obj([tu |-> Str(<< "a", "|", "|", "b" >>)]),
   Obj([tu |-> Str(<< "a" >>), hiragana |-> Str(<< "b", "|", "|" >>)]),
   JsNull}
ExampleArrays == {Arr(xs) : xs \in SeqsUpTo(ExamplePool, MaxExamples)}
Entries ==
  {JsNull} \cup
  {Obj([kun |-> k, on |-> o, viDuKun |-> vk, viDuOn |-> vo, viDu |-> v, examples |-> x]) :
     k \in {Undef,
            Arr(<< Obj([am |-> Str(<< "a" >>),
                        viDu |-> Arr(<< Obj([tu |-> Str(<< "a" >>), hiragana |-> Str(<< "b" >>)]),
                                        Obj([tu |-> Str(<< "c" >>)]) >>)]) >>),
            Arr(<< Obj([word |-> Str(<< "a" >>), reading |-> Str(<< "b" >>)]) >>)},
     o \in {Undef,
            Arr(<< Obj([viDu |-> Arr(<< Str(<< "a", "(", "b", ")" >>) >>)]), JsNull >>)},
     vk \in {Undef, Arr(<< Obj([tu |-> Str(<< "c" >>)]), Str(<< "a", "(", "b", ")" >>) >>)},
     vo \in {Undef, Str(<< "a" >>)},
     v \in ExampleArrays,
     x \in {Undef,
            Arr(<< Obj([tu |-> Str(<< "a" >>), hiragana |-> Str(<< "b" >>)]) >>),
            Obj([kun |-> Arr(<< Obj([tu |-> Str(<< "c" >>)]) >>),
                 on |-> Arr(<< Str(<< "a", "(", "b", ")" >>) >>)])}}

CallCollectExamples == Return("collectExamples", collectExamples(call.arg))

InitCollect == Page /\ ui = "KanjiModal" /\ entry = "nichi"
               /\ call \in Calls("collectExamples", Entries)
SpecCollect == InitCollect /\ [][CallCollectExamples]_vars

\* sanitizeKanjivgSvg(raw): every markup of at most MaxMarkup lexical pieces
MarkupTags ==
  {"<?xml?>", "ws", "<!DOCTYPE[", "<!DOCTYPE>", "<!ATTLIST>", "]>", "<!---->",
   "<svg>", "path", "</svg>"}
MarkupPieces == {IF t = "path" THEN PathEl("#000000", "M1") ELSE Tok(t) : t \in MarkupTags}
Markups == SeqsUpTo(MarkupPieces, MaxMarkup)

CallSanitize == Return("sanitizeKanjivgSvg", sanitizeKanjivgSvg(call.arg))

CallSanitizeAgain ==
  /\ call.fn = "sanitizeKanjivgSvg"
  /\ call.done
  /\ call' = [fn |-> "sanitizeKanjivgSvg.again", arg |-> call.out,
              out |-> sanitizeKanjivgSvg(call.out), done |-> TRUE]
  /\ UNCHANGED pageVars

InitSanitize == Page /\ ui = "App" /\ call \in Calls("sanitizeKanjivgSvg", Markups)
SpecSanitize == InitSanitize /\ [][CallSanitize \/ CallSanitizeAgain]_vars

\* legacy-shape records: an info map with a compact reading string under
\* one of the accepted labels, and the same record given to the Admin
\* normaliser
Compact == Str("hi -bi -ka")
NoFields == [k \in {} |-> Undef]
RawInfos ==
  {Undef, JsNull} \cup
  {Obj(h @@ k @@ o @@ b) :
     h \in {NoFields, "Han tu" :> Str("nichi"), "Han tu" :> Obj([kanji |-> Str("nichi")]),
            "Han tu" :> JsNull},
     k \in {NoFields, "Kunyomi" :> Compact, "Am Kun" :> Compact,
            ("Kun" :> Str("hi")) @@ ("Kunyomi" :> Compact)},
     o \in {NoFields, "Onyomi" :> Compact, "On" :> Str("nichi -jitsu")},
     b \in {NoFields, "Bo" :> Obj([text |-> Str("nichi")]), "Bo" :> Str("")}}
LegacyItems ==
  {Obj([kanji |-> Str("nichi"), info |-> i]) : i \in RawInfos} \cup
  {Obj([chu |-> Str("nichi"), kun |-> k, on |-> o]) :
     k \in {Undef, Compact}, o \in {Undef, Compact, Arr(<< Obj([am |-> Str("nichi")]) >>)}}

CallNormalizeInfo == Return("normalizeInfo", normalizeInfo(call.arg))

InitLegacy ==
  /\ Page
  /\ ui = "App"
  /\ call \in Calls("normalizeInfo", RawInfos) \cup Calls("normalizeKanjiItem", LegacyItems)
SpecLegacy == InitLegacy /\ [][CallNormalizeInfo \/ CallNormalizeKanjiItem]_vars

(***************************************************************************)
(* Properties.                                                             *)
(***************************************************************************)

\* C1: in KanjiModal at most one reveal loop of playAnimation is in flight
\* (started and not yet exited) at any time.
C1_AtMostOneLoop == Cardinality(InFlight) <= 1

\* C2: once stopAnimation has been called while a reveal loop is waiting,
\* that loop begins the transition of no further stroke (it exits, or it is
\* still waiting on the same stroke), whatever happens before its wait
\* elapses; and isAnimating is false right after stopAnimation.
C2_StoppedLoopStartsNothing ==
  [][ /\ \A s \in 1..MaxLoops :
           (loops[s] # NoLoop /\ loops[s].stopped) =>
             (loops'[s] = NoLoop \/ loops'[s].next = loops[s].next)
      /\ (~abort /\ abort') => ~isAnimating' ]_vars

\* C3: in App a non-empty svgText is always the markup fetched for the
\* active item, in whatever order the fetches resolve.
C3_SvgTextOfActive ==
  (ui = "App" /\ svgText # << >>) =>
    /\ activeKanji # Null
    /\ \E o \in {"ok", "html"} :
         svgText = sanitizeKanjivgSvg(
                     Body(AppSvgUrl(toLowerCase(codepoint_hex(activeKanji))), o))

\* C4: in KanjiModal svgText and svgErr were last written by the load of the
\* current URL and hold an outcome of that URL: the outcome of an earlier
\* load, success or failure, changes neither.
C4_LoadOfCurrentUrl ==
  ui = "KanjiModal" =>
    /\ writer = loadGen
    /\ svgText # << >> =>
         \E o \in {"ok", "html"} : svgText = cleaned(Body(safeSvgUrl(entry), o))
    /\ svgErr # "" =>
         IF safeSvgUrl(entry) = << >> THEN svgErr = NoPathMsg
         ELSE \E o \in {"http", "network"} : svgErr = ErrMsg(o)

\* C4's case: the entry changed, the outcome of an earlier load was dropped
\* on arrival, and the load of the current URL has delivered its markup.
C4_Witness ==
  /\ ui = "KanjiModal"
  /\ mounted
  /\ discarded # 0
  /\ discarded < loadGen
  /\ svgText # << >>

\* C5: strokes begin their reveal in document order and never concurrently:
\* when the reveal of a path begins, no other path is mid-reveal and no
\* earlier path is still waiting for its own reveal.
C5_SerialReveal ==
  [][ \A j \in DOMAIN reveal' :
        ( /\ reveal'[j].st = "running"
          /\ (j \notin DOMAIN reveal \/ reveal[j].st # "running") ) =>
          /\ \A i \in DOMAIN reveal' \ {j} : reveal'[i].st # "running"
          /\ \A i \in 1..(j - 1) : reveal'[i].st \notin {"hidden", "delayed"} ]_vars

\* C6: in App a play request made while animating is true is ignored: no
\* step taken while animating advances animKey (the SVG is not remounted and
\* the running reveal is not restarted).
C6_ReplayIgnored == [][ animating => animKey' # animKey + 1 ]_vars

\* C7: in each composing UI draw mode and the animating state are never
\* both on.
C7_DrawExcludesAnimation == ~(drawMode /\ (animating \/ isAnimating))

\* C8: the handlers registered are exactly those of the overlay setup in
\* force: one per event type while the setup stands, none once the canvas
\* effect is torn down or the canvas is unmounted.
C8_ListenersReleased ==
  LET Registered ==
        IF ui = "App"
        THEN (IF activeKanji # Null THEN ResizeTypes \cup PointerTypes ELSE {})
        ELSE (IF mounted /\ drawMode THEN ModalTypes ELSE {})
  IN \A t \in EventTypes : listeners[t] = (IF t \in Registered THEN 1 ELSE 0)

\* C8's case: setups were torn down (toggles, switches) and the canvas is
\* now unmounted.
C8_Witness ==
  /\ teardowns = MaxSetups
  /\ ~CanvasExists

\* C9: no step adds ink to the canvas while draw mode is off.
C9_NoInkWhileDisabled == [][ ~drawMode => ink' \subseteq ink ]_vars

\* C9's case: ink was drawn, draw mode has been switched off since, and a
\* pointer is down on the canvas.
C9_Witness ==
  /\ CanvasExists
  /\ ~drawMode
  /\ ink # {}
  /\ pressed # "none"
  /\ teardowns > 0

\* C10: ink is added only by a move of a pointer that is down (pressed and
\* not released or cancelled since), as a segment from the last sampled
\* point to the current point.
C10_InkOnlyWhilePressed ==
  [][ \/ ink' \subseteq ink
      \/ /\ pressed # "none"
         /\ pressed' = pressed
         /\ \E p \in Points :
              /\ last' = p
              /\ ink' \ ink \subseteq {<< last, p >>, << p, p >>} ]_vars

\* C11: a step of clear (useCanvasDraw) or clearCanvas (KanjiModal) leaves
\* no ink on the overlay canvas and changes neither the markup, nor the
\* animation state, nor the draw-mode flag.
C11_ClearRemovesAllInk ==
  [][ (clear \/ clearCanvas) =>
        /\ ink' = {}
        /\ UNCHANGED << svgText, animating, animKey, isAnimating, abort, loops,
                        effect, reveal, drawMode >> ]_vars

\* C12: extractStrokes returns exactly the paths whose stroke attribute is
\* not the guide colour in either case and whose d attribute is non-empty,
\* in document order; of a document with one guide path and N real strokes
\* it returns N handles.
C12_ExtractStrokes ==
  (call.fn = "extractStrokes" /\ call.done) =>
    LET paths == PathsOf(call.arg)
        out == call.out
        guide(p) == p.stroke \in {"#bcc9e2", "#BCC9E2"}
        real(p) == ~guide(p) /\ p.d # ""
        G == {j \in DOMAIN paths : guide(paths[j])}
        N == {j \in DOMAIN paths : real(paths[j])}
    IN /\ \A i \in 1..(Len(out) - 1) : out[i] < out[i + 1]
       /\ {out[i] : i \in DOMAIN out} = N
       /\ (Cardinality(G) = 1 /\ G \cup N = DOMAIN paths) => Len(out) = Len(paths) - 1

\* C12's case: a document whose one guide path writes the colour in upper
\* case, between two real strokes, both returned.
C12_Witness ==
  /\ call.fn = "extractStrokes"
  /\ call.done
  /\ Len(PathsOf(call.arg)) = 3
  /\ PathsOf(call.arg)[2].stroke = "#BCC9E2"
  /\ call.out = << 1, 3 >>

\* C13: normalizeKanjiItem is idempotent: normalising a record it returned
\* returns that record again in every field other than updatedAt.
C13_NormalizeIdempotent ==
  call.fn = "normalizeKanjiItem.again" =>
    \A f \in {"chu", "hanViet", "nghia", "on", "kun", "bo", "svg"} :
      call.out.v[f] = call.arg.v[f]

\* C13's case: a record with a derived code point, a given path and one
\* reading has been normalised twice.
C13_Witness ==
  /\ call.fn = "normalizeKanjiItem.again"
  /\ call.out.v.chu = Str("nichi")
  /\ call.out.v.svg.v.codepoint_hex = Str("065e5")
  /\ call.out.v.svg.v.path = Str("custom.svg")
  /\ Len(call.out.v.on.v) = 1
  /\ call.out.v.updatedAt = Str(NowFirst)

\* C14: a batch load drops the records from which no character identity
\* can be determined: no loaded item has an empty chu, and the items are
\* the other records of the batch, in order.
C14_BatchDropsUnidentified ==
  (call.fn = "onFilePicked" /\ call.done /\ isArray(call.arg)) =>
    LET identified(r) == Text(Get(Coalesce(r, EmptyObj), "chu")).v # ""
        kept == SelectSeq(call.arg.v, identified)
    IN /\ \A i \in DOMAIN call.out : call.out[i].v.chu.v # ""
       /\ Len(call.out) = Len(kept)
       /\ \A i \in DOMAIN kept : call.out[i].v.chu = Get(kept[i], "chu")

\* C15: of a record with a non-empty chu and neither svg.codepoint_hex nor
\* svg.path, codepoint_hex is the lowercase hexadecimal code point of chu's
\* first character padded to 5 digits (6 digits kept whole) and path is
\* resources/kanji_svg/<codepoint_hex>.svg.
C15_DerivedCodepointPath ==
  (call.fn = "normalizeKanjiItem" /\ call.done) =>
    LET raw == Coalesce(call.arg, EmptyObj)
        svg == Coalesce(Get(raw, "svg"), EmptyObj)
        chu == Text(Get(raw, "chu")).v
        hex == CASE chu = "nichi" -> "065e5"
                 [] chu = "yoshi" -> "20bb7"
                 [] chu = "pua" -> "100000"
                 [] chu = "a" -> "00061"
                 [] chu = "5" -> "00035"
                 [] OTHER -> "?"
    IN (chu # "" /\ Nullish(Get(svg, "codepoint_hex")) /\ Nullish(Get(svg, "path"))) =>
         /\ call.out.v.svg.v.codepoint_hex = Str(hex)
         /\ call.out.v.svg.v.path = Str("resources/kanji_svg/" \o hex \o ".svg")
         /\ chu = "nichi" => call.out.v.svg.v.path = Str("resources/kanji_svg/065e5.svg")

\* C15's case: a record of U+100000 with no svg field has been normalised.
C15_Witness ==
  /\ call.fn = "normalizeKanjiItem"
  /\ call.done
  /\ Get(call.arg, "chu") = Str("pua")
  /\ Nullish(Get(call.arg, "svg"))
  /\ call.out.v.svg.v.codepoint_hex = Str("100000")

\* C16: of an example string, the first of the three patterns that matches
\* determines tu, hiragana and nghia by itself (a field the pattern has no
\* group for is empty); if none matches, tu is the trimmed string and the
\* other two are empty.
C16_FirstPatternWins ==
  (call.fn = "pushExample" /\ call.done /\ strTrim(call.arg.v) # << >>) =>
    LET s == strTrim(call.arg.v)
        m1 == Match1(s)
        m2 == Match2(s)
        m3 == Match3(s)
        fields(tu, hiragana, nghia) ==
          [tu |-> strTrim(tu), hiragana |-> strTrim(hiragana), nghia |-> strTrim(nghia)]
    IN call.out =
         << IF m1.ok THEN fields(m1.g[1], m1.g[2], m1.g[3])
            ELSE IF m2.ok THEN fields(m2.g[1], m2.g[2], << >>)
            ELSE IF m3.ok THEN fields(m3.g[1], << >>, m3.g[2])
            ELSE fields(s, << >>, << >>) >>

\* C17: the list collectExamples returns holds no two elements with the
\* same (tu, hiragana, nghia), whichever fields of the entry they come
\* from; each element it holds was met in the traversal and stands at the
\* place of its first occurrence in the order of traversal.
C17_ExamplesUnique ==
  (call.fn = "collectExamples" /\ call.done) =>
    LET out == call.out.out
        tried == call.out.tried
        first(f) == Least({i \in DOMAIN tried : tried[i] = f})
    IN /\ \A i, j \in DOMAIN out : i # j => out[i] # out[j]
       /\ {out[i] : i \in DOMAIN out} \subseteq {tried[i] : i \in DOMAIN tried}
       /\ \A i, j \in DOMAIN out : i < j => first(out[i]) < first(out[j])

\* C17's case: the same triple was met at least three times, in examples of
\* different shapes, and two different triples are returned.
C17_Witness ==
  /\ call.fn = "collectExamples"
  /\ call.done
  /\ Len(call.out.out) = 2
  /\ Len(call.out.tried) >= 5

\* C18: sanitizeKanjivgSvg is idempotent, sanitising its own result returns
\* that result; and a markup with no prolog and no doctype is returned
\* unchanged apart from trimming.
C18_SanitizeIdempotent ==
  /\ call.fn = "sanitizeKanjivgSvg.again" => call.out = call.arg
  /\ (/\ call.fn = "sanitizeKanjivgSvg"
      /\ call.done
      /\ \A i \in DOMAIN call.arg :
           call.arg[i].tag \notin {"<?xml?>", "<!DOCTYPE[", "<!DOCTYPE>"})
     => call.out = trim(call.arg)

\* C19: sanitizeKanjivgSvg removes the doctype declaration, with an internal
\* subset or without one, and nothing else of the body: of a markup that is
\* an optional prolog, one doctype declaration and a body, the result is the
\* body without its leading comments and surrounding whitespace.
C19_OnlyDoctypeRemoved ==
  (call.fn = "sanitizeKanjivgSvg" /\ call.done) =>
    LET s == call.arg
        p == SkipWs(s, 1)
        d == IF p <= Len(s) /\ s[p].tag = "<?xml?>" THEN SkipWs(s, p + 1) ELSE p
        plain == d <= Len(s) /\ s[d].tag = "<!DOCTYPE>"
        closes == IF d <= Len(s) /\ s[d].tag = "<!DOCTYPE["
                  THEN {j \in (d + 1)..Len(s) :
                          /\ s[j].tag = "]>"
                          /\ \A k \in (d + 1)..(j - 1) : s[k].tag \in {"<!ATTLIST>", "ws"}}
                  ELSE {}
        e == IF plain THEN d ELSE Least(closes)
        body == SubSeq(s, e + 1, Len(s))
    IN (/\ plain \/ closes # {}
        /\ \A i \in DOMAIN body :
             body[i].tag \in {"ws", "<!---->", "<svg>", "path", "</svg>", "]>"})
       => call.out = trim(ReplaceTopComments(body))

\* C20: in KanjiModal a failed load for the current URL ends in the error
\* state: while mounted with no SVG path, and after a load that is not cancelled ends with a
\* non-success status or a network failure, svgErr is non-empty and svgText
\* is empty; and svgErr and svgText are never both non-empty.
C20_FailedLoadIsError ==
  /\ [](ui = "KanjiModal" =>
          /\ ~(svgErr # "" /\ svgText # << >>)
          /\ (mounted /\ safeSvgUrl(entry) = << >>) => (svgErr # "" /\ svgText = << >>))
  /\ [][\A l \in loads, o \in {"http", "network"} :
          (mounted /\ ~l.cancelled /\ LoadResolve(l, o))
            => (svgErr' # "" /\ svgText' = << >>)]_vars

\* C20's case: after an earlier load had shown its graphic, the load for the
\* next URL failed and left the error state.
C20_Witness ==
  /\ ui = "KanjiModal"
  /\ mounted
  /\ loadGen >= 2
  /\ writer = loadGen
  /\ loads = {}
  /\ svgErr = ErrMsg("http")
  /\ svgText = << >>

\* C21: every started animation returns to idle: with the browser running
\* what is queued, animating (App) and isAnimating (KanjiModal) each become
\* false again whenever they are true, whether or not further input arrives.
C21_AnimationEnds ==
  /\ animating ~> ~animating
  /\ isAnimating ~> ~isAnimating

\* C21's case (KanjiModal): a reveal loop runs its last sleep while
\* isAnimating is true and no stop was asked.
C21_Witness ==
  /\ ui = "KanjiModal"
  /\ isAnimating
  /\ ~abort
  /\ \E s \in 1..MaxLoops :
       /\ loops[s] # NoLoop
       /\ loops[s].next > Len(loops[s].strokes)
       /\ loops[s].wait > 0

\* C22: normalising a legacy-shape record tokenises a compact reading
\* string: the kun and on values produced for "hi -bi -ka" are the list of
\* the readings hi, bi, ka, in this order.
C22_CompactReadingTokenized ==
  LET Tokens == << Str("hi"), Str("bi"), Str("ka") >>
      IsTokens(x) ==
        /\ isArray(x)
        /\ Len(x.v) = 3
        /\ \A i \in 1..3 : x.v[i] = Tokens[i] \/ Get(x.v[i], "am") = Tokens[i]
      given(f, labels) ==
        IF call.fn = "normalizeInfo"
        THEN call.arg.t = "object" /\ get(call.arg, labels) = Compact
        ELSE Get(call.arg, f) = Compact
  IN (call.fn \in {"normalizeInfo", "normalizeKanjiItem"} /\ call.done /\ call.out # Throws) =>
       /\ given("kun", << "Kunyomi", "Kun", "Am Kun", "Am kunyomi" >>) => IsTokens(call.out.v.kun)
       /\ given("on", << "Onyomi", "On", "Am On", "Am onyomi" >>) => IsTokens(call.out.v.on)

\* C23: in KanjiModal a reveal loop whose document has been replaced (the
\* entry's URL changed while it was in flight) starts no further stroke
\* transition on the handles of that document, and once the next document
\* is shown isAnimating is not true on its account.
C23_LoopEndsWithDocument ==
  /\ [](\A s \in 1..MaxLoops :
          (/\ ui = "KanjiModal"
           /\ mounted
           /\ loops[s] # NoLoop
           /\ ~loops[s].stopped
           /\ domGen # 0
           /\ loops[s].dom # domGen)
            => ~isAnimating)
  /\ [][\A s \in 1..MaxLoops :
          (mounted /\ loops[s] # NoLoop /\ loops[s].dom # domGen /\ loops'[s] # NoLoop)
            => loops'[s].next = loops[s].next]_vars
\* C24: App's animateKanjiSvg animates only genuine strokes: a path of the
\* guide colour or without path data is never given the hidden dash or the
\* reveal animation, and the completion timer is not set later than the
\* genuine strokes need.
C24_OnlyStrokesAnimated ==
  ui = "App" =>
    /\ \A i \in DOMAIN reveal :
         (i \in DOMAIN PathsOf(svgText) /\ ~IsStroke(PathsOf(svgText)[i]))
           => reveal[i] = Plain
    /\ effect.phase = "timer" =>
         LET n == Len(extractStrokes(effect.host)) IN
         effect.left <= Max(MinAnimMs, (IF n = 0 THEN 0 ELSE (n - 1) * gap + dur) + AnimSlackMs)

\* C25: in KanjiModal, whenever a reveal loop is in flight that has not
\* been asked to stop since it started, isAnimating is true.
C25_RunningLoopShowsStop ==
  (ui = "KanjiModal" /\ mounted) =>
    \A s \in 1..MaxLoops :
      (loops[s] # NoLoop /\ ~loops[s].stopped) => isAnimating

\* C26: collectExamples suppresses an example only when an earlier one has
\* the same three fields: every triple met in the traversal is present in
\* the list returned, also when its texts hold the separator of the key.
C26_OnlyEqualTriplesSuppressed ==
  (call.fn = "collectExamples" /\ call.done) =>
    \A i \in DOMAIN call.out.tried :
      \E j \in DOMAIN call.out.out : call.out.out[j] = call.out.tried[i]

=============================================================================
